---- MODULE Spec2Model ----
(***************************************************************************)
(* Model of src/src/app.py (GlobalMigrationVis): the migration loader       *)
(* (pivot, threshold drop, fill, aggregate exclusion, name normalization),  *)
(* the memoized loads, the merge, the year / destination selectors and the  *)
(* globe-flow and Sankey derivations.                                       *)
(*                                                                         *)
(* Cell values are floats in the program.  The model keeps them exact: a    *)
(* cell holds Den times the float, and every input value is a multiple of   *)
(* Den = lcm(1..8), so every linear interpolation between columns at most  *)
(* 8 apart is an exact integer.                                             *)
(***************************************************************************)
EXTENDS Integers, Sequences, FiniteSets, TLC

VARIABLES
    csv,            \* the migration CSV on disk: [years, cells]
    shp,            \* the shapefile on disk: a sequence of [ADMIN, geometry]
    pc,             \* position in the script / in the loader body
    df_wide,        \* the MigrationTable: [columns, rows]
    world,          \* the CountryGeometry table
    merged,         \* MergedCountry: a sequence of rows
    years,          \* sorted year domain (line 52)
    default_year,   \* line 53
    year,           \* the slider's value (line 68)
    selected_dest,  \* the selectbox's value (line 70)
    flows,          \* tab2: list of FlowRecords (lines 96-105)
    labels,         \* tab3: Sankey node labels (line 143)
    top_sources,    \* tab3: nlargest result (line 141)
    sankey_source,  \* tab3: edge source indices
    sankey_target,  \* tab3: edge target indices
    sankey_value,   \* tab3: edge weights
    cache,          \* st.cache_data store: [mig, geo], each <<>> or <<value>>
    bodyRuns,       \* how often each loader body has executed: [mig, geo]
    firstSeen,      \* what the first script run observed: <<>> or <<[df, world]>>
    runNo           \* number of script executions started so far

vars == << csv, shp, pc, df_wide, world, merged, years, default_year, year,
           selected_dest, flows, labels, top_sources, sankey_source,
           sankey_target, sankey_value, cache, bodyRuns, firstSeen, runNo >>

(***************************************************************************)
(* Bounds of the model.                                                    *)
(***************************************************************************)
NumYears == 8
MaxRows == 2
MaxCountries == 12
MaxReruns == 2
MaxHigh == 3

(***************************************************************************)
(* Program constants.                                                      *)
(***************************************************************************)
thresh == 5
N == 10
step == 5

\* A missing cell (pandas NaN).  Real cell values are non-negative.
NaN == -1

\* The absent selectbox value (Python None) when there are no options.
None == "<None>"

\* Cells hold Den * value.
Den == 2 * 2 * 2 * 3 * 5 * 7

aggregates ==
    { "Africa", "Americas", "Asia", "Europe", "European Union", "High income",
      "Low income", "Lower middle income", "Upper middle income", "Oceania",
      "World", "North America", "South America", "Sub-Saharan Africa",
      "Middle East" }

\* A name-normalization map in which a target is itself a key.
fix_names_chained ==
    [ k \in { "United States", "Czechia", "Democratic Republic of Congo",
              "Republic of Congo", "Eswatini", "Timor", "Myanmar",
              "North Macedonia", "South Sudan", "Sudan" } |->
        CASE k = "United States" -> "United States of America"
          [] k = "Czechia" -> "Czech Republic"
          [] k = "Democratic Republic of Congo" -> "Democratic Republic of the Congo"
          [] k = "Republic of Congo" -> "Republic of the Congo"
          [] k = "Eswatini" -> "Swaziland"
          [] k = "Timor" -> "Timor-Leste"
          [] k = "Myanmar" -> "Burma"
          [] k = "North Macedonia" -> "Macedonia"
          [] k = "South Sudan" -> "Sudan"
          [] k = "Sudan" -> "Africa" ]

fix_names ==
    [ k \in { "United States", "Czechia", "Democratic Republic of Congo",
              "Republic of Congo", "Eswatini", "Timor", "Myanmar",
              "North Macedonia", "South Sudan", "Laos" } |->
        CASE k = "United States" -> "United States of America"
          [] k = "Czechia" -> "Czech Republic"
          [] k = "Democratic Republic of Congo" -> "Democratic Republic of the Congo"
          [] k = "Republic of Congo" -> "Republic of the Congo"
          [] k = "Eswatini" -> "Swaziland"
          [] k = "Timor" -> "Timor-Leste"
          [] k = "Myanmar" -> "Burma"
          [] k = "North Macedonia" -> "Macedonia"
          [] k = "South Sudan" -> "Sudan"
          [] k = "Laos" -> "Lao PDR" ]

(***************************************************************************)
(* Every Entity name of the model in Python's string order (the order pivot *)
(* gives the index and sorted() gives the selectbox options).  NameUniverse *)
(* is every aggregate, every key and every target of fix_names, and two     *)
(* names that are neither.                                                  *)
(***************************************************************************)
NameOrder ==
    << "Africa", "Americas", "Asia", "Brazil", "Burma", "Canada", "Chad",
       "Chile", "China", "Czech Republic", "Czechia",
       "Democratic Republic of Congo", "Democratic Republic of the Congo",
       "Egypt", "Eswatini", "Europe", "European Union", "France", "Ghana",
       "High income", "India", "Japan", "Kenya", "Lao PDR", "Laos",
       "Low income", "Lower middle income", "Macedonia", "Mexico",
       "Middle East", "Myanmar", "Nepal", "North America",
       "North Macedonia", "Oceania", "Peru", "Republic of Congo",
       "Republic of the Congo", "South America", "South Sudan", "Spain",
       "Sub-Saharan Africa", "Sudan", "Swaziland", "Timor", "Timor-Leste",
       "Turkey", "United States", "United States of America",
       "Upper middle income", "World" >>

\* Fourteen countries that are neither aggregates nor touched by fix_names.
Roster ==
    << "Brazil", "Canada", "Chile", "China", "Egypt", "France", "Ghana",
       "India", "Japan", "Kenya", "Mexico", "Nepal", "Spain", "Turkey" >>

NameUniverse ==
    aggregates \cup DOMAIN fix_names
      \cup { fix_names[k] : k \in DOMAIN fix_names } \cup { "Chad", "Peru" }

Rank(n) == CHOOSE i \in DOMAIN NameOrder : NameOrder[i] = n

NameLess(a, b) == Rank(a) < Rank(b)

IntLess(a, b) == a < b

Min(S) == CHOOSE x \in S : \A y \in S : x <= y

Max(S) == CHOOSE x \in S : \A y \in S : x >= y

RECURSIVE SetToSeq(_)
SetToSeq(S) ==
    IF S = {} THEN << >>
    ELSE LET x == CHOOSE x \in S : TRUE
         IN  << x >> \o SetToSeq(S \ {x})

\* sorted(...) of a set of integers
SortedInts(S) == SortSeq(SetToSeq(S), IntLess)

\* sorted(...) of a set of names
SortedNames(S) == SortSeq(SetToSeq(S), NameLess)

Range(s) == { s[i] : i \in DOMAIN s }

\* The element of a one-element set.
Only(S) == CHOOSE x \in S : TRUE

(***************************************************************************)
(* load_migration_data, lines 10-35.                                       *)
(***************************************************************************)

\* line 13: one row per Entity (index sorted), one column per Year (sorted).
pivot(file) ==
    Only({ [ columns |-> cols,
             rows |-> [ i \in DOMAIN names |->
                          [ Entity |-> names[i],
                            vals |-> [ j \in DOMAIN cols |->
                                         file.cells[names[i]][cols[j]] ] ] ] ] :
           names \in { SortedNames(DOMAIN file.cells) },
           cols \in { SortedInts(file.years) } })

NotNaCount(vals) == Cardinality({ j \in DOMAIN vals : vals[j] # NaN })

\* A threshold test that is off by one (keeps rows with thresh - 1 values).
dropna_keeps_off_by_one(row) == NotNaCount(row.vals) >= thresh - 1

\* line 14: dropna(thresh=5) keeps the rows with at least 5 non-NA values.
dropna_keeps(row) == NotNaCount(row.vals) >= thresh

dropna(t) == [ t EXCEPT !.rows = SelectSeq(t.rows, dropna_keeps) ]

\* Positions of the nearest known values before / after position j (0: none).
PrevKnown(vals, j) ==
    LET S == { i \in 1..(j - 1) : vals[i] # NaN }
    IN  IF S = {} THEN 0 ELSE Max(S)

NextKnown(vals, j) ==
    LET S == { i \in (j + 1)..Len(vals) : vals[i] # NaN }
    IN  IF S = {} THEN 0 ELSE Min(S)

\* An interpolation that pads a gap with the value before it.
interpolate_row_pad(vals) ==
    [ j \in DOMAIN vals |->
        IF vals[j] # NaN THEN vals[j]
        ELSE LET p == PrevKnown(vals, j)
             IN  IF p = 0 THEN NaN ELSE vals[p] ]

\* line 15, interpolate(axis=1): method linear over equally spaced columns,
\* limit_direction forward: a gap between two known values is interpolated,
\* a gap after the last known value takes that value, a gap before the
\* first known value stays missing.
interpolate_row(vals) ==
    [ j \in DOMAIN vals |->
        IF vals[j] # NaN THEN vals[j]
        ELSE LET p == PrevKnown(vals, j)
                 q == NextKnown(vals, j)
             IN  IF p = 0 THEN NaN
                 ELSE IF q = 0 THEN vals[p]
                 ELSE vals[p] + (((vals[q] - vals[p]) * (j - p)) \div (q - p)) ]

\* line 15, bfill(axis=1): a missing cell takes the next known value.
bfill_row(vals) ==
    [ j \in DOMAIN vals |->
        IF vals[j] # NaN THEN vals[j]
        ELSE LET q == NextKnown(vals, j)
             IN  IF q = 0 THEN NaN ELSE vals[q] ]

\* line 15, ffill(axis=1): a missing cell takes the previous known value.
ffill_row(vals) ==
    [ j \in DOMAIN vals |->
        IF vals[j] # NaN THEN vals[j]
        ELSE LET p == PrevKnown(vals, j)
             IN  IF p = 0 THEN NaN ELSE vals[p] ]

interpolate(t) ==
    [ t EXCEPT !.rows = [ i \in DOMAIN t.rows |->
        [ t.rows[i] EXCEPT !.vals = interpolate_row(t.rows[i].vals) ] ] ]

bfill(t) ==
    [ t EXCEPT !.rows = [ i \in DOMAIN t.rows |->
        [ t.rows[i] EXCEPT !.vals = bfill_row(t.rows[i].vals) ] ] ]

ffill(t) ==
    [ t EXCEPT !.rows = [ i \in DOMAIN t.rows |->
        [ t.rows[i] EXCEPT !.vals = ffill_row(t.rows[i].vals) ] ] ]

\* An aggregate filter applied to nothing.
not_aggregate_none(row) == TRUE

\* line 21: ~df_wide.index.isin(aggregates)
not_aggregate(row) == row.Entity \notin aggregates

drop_aggregates(t) == [ t EXCEPT !.rows = SelectSeq(t.rows, not_aggregate) ]

\* line 34: rename(index=fix_names): exact match on the label, one lookup.
rename_label(e) == IF e \in DOMAIN fix_names THEN fix_names[e] ELSE e

rename(t) ==
    [ t EXCEPT !.rows = [ i \in DOMAIN t.rows |->
                            [ t.rows[i] EXCEPT !.Entity = rename_label(t.rows[i].Entity) ] ] ]

\* The body of load_migration_data, lines 11-35.
load_migration_data(file) ==
    Only({ rename(t6) : t6 \in
      { drop_aggregates(t5) : t5 \in
        { ffill(t4) : t4 \in
          { bfill(t3) : t3 \in
            { interpolate(t2) : t2 \in
              { dropna(t1) : t1 \in { pivot(file) } } } } } } })

(***************************************************************************)
(* The script after the loads, lines 44-70.                                *)
(***************************************************************************)

\* line 52: years = sorted([int(y) for y in df_wide.columns])
years_of(t) == SortedInts(Range(t.columns))

\* line 68: the values the slider can hold: its initial value, and the
\* positions min_value + step * k up to max_value the user can move it to.
SliderValues(ys, dflt) ==
    { dflt } \cup { y \in Min(Range(ys))..Max(Range(ys)) :
                      (y - Min(Range(ys))) % step = 0 }

(***************************************************************************)
(* Inputs.                                                                 *)
(***************************************************************************)
EmptyTable == [ columns |-> << >>, rows |-> << >> ]

\* Years a migration file may carry: the five-year grid and a closing,
\* off-grid survey year.
YearCandidates == { 1990, 1995, 2000, 2005, 2010, 2015, 2020, 2024 }

GridYears == { 1990 + 5 * i : i \in 0..(NumYears - 1) }

GridIndex(y) == ((y - 1990) \div 5) + 1

CellValues == { 10 * Den, 30 * Den }

\* The names put next to name a in a file: the name it is renamed to, the
\* names renamed to it, a plain country, an aggregate and a mapped name.
Companions(a) ==
    ({ IF a \in DOMAIN fix_names THEN fix_names[a] ELSE a }
       \cup { k \in DOMAIN fix_names : fix_names[k] = a }
       \cup { "Chad", "World", "Laos" }) \ { a }

\* Any name with fewer than MaxRows of its companions.
NameSets ==
    UNION { { { a } \cup T : T \in { U \in SUBSET Companions(a) :
                                       Cardinality(U) < MaxRows } } :
            a \in NameUniverse }

\* A row with exactly thresh - 1 known values, then missing ones.
SparseRow ==
    [ y \in GridYears |->
        IF GridIndex(y) <= thresh - 1 THEN 10 * Den * GridIndex(y) ELSE NaN ]

\* A row with exactly thresh known values after leading missing ones.
BoundaryRow ==
    [ y \in GridYears |->
        IF GridIndex(y) > NumYears - thresh THEN 10 * Den * GridIndex(y) ELSE NaN ]

\* One country, every pattern of known and missing cells.
FilesOneRow ==
    { [ years |-> GridYears, cells |-> [ n \in { "Chad" } |-> f ] ] :
        f \in [ GridYears -> CellValues \cup { NaN } ] }

\* Up to MaxRows names, each row at the threshold's boundary.
FilesByName ==
    UNION { { [ years |-> GridYears, cells |-> c ] :
                c \in [ S -> { SparseRow, BoundaryRow } ] } :
            S \in NameSets }

\* One fully known country over any set of at least two years.
FilesByYears ==
    { [ years |-> Y, cells |-> [ n \in { "Peru" } |-> [ y \in Y |-> 10 * Den ] ] ] :
        Y \in { Z \in SUBSET YearCandidates : Cardinality(Z) >= 2 } }

NoCache == [ mig |-> << >>, geo |-> << >> ]

\* The state before the first statement of the script has run.
Blank ==
    /\ df_wide = EmptyTable
    /\ world = << >>
    /\ merged = EmptyTable
    /\ years = << >>
    /\ default_year = 0
    /\ year = 0
    /\ selected_dest = None
    /\ flows = << >>
    /\ labels = << >>
    /\ top_sources = << >>
    /\ sankey_source = << >>
    /\ sankey_target = << >>
    /\ sankey_value = << >>
    /\ cache = NoCache
    /\ bodyRuns = [ mig |-> 0, geo |-> 0 ]
    /\ firstSeen = << >>
    /\ runNo = 0

(***************************************************************************)
(* SpecLoad: the body of load_migration_data statement by statement, then   *)
(* the year domain and the year slider.                                     *)
(***************************************************************************)
InitLoad ==
    /\ csv \in FilesOneRow \cup FilesByName \cup FilesByYears
    /\ shp = << >>
    /\ pc = "pivot"
    /\ Blank

LoadStep(from, to, table) ==
    /\ pc = from
    /\ pc' = to
    /\ df_wide' = table
    /\ UNCHANGED << csv, shp, world, merged, years, default_year, year,
                    selected_dest, flows, labels, top_sources, sankey_source,
                    sankey_target, sankey_value, cache, bodyRuns, firstSeen,
                    runNo >>

\* lines 12-13
ReadPivot == LoadStep("pivot", "dropna", pivot(csv))

\* line 14
DropNa == LoadStep("dropna", "interpolate", dropna(df_wide))

\* line 15
Interpolate == LoadStep("interpolate", "bfill", interpolate(df_wide))

Bfill == LoadStep("bfill", "ffill", bfill(df_wide))

Ffill == LoadStep("ffill", "isin", ffill(df_wide))

\* line 21
DropAggregates == LoadStep("isin", "rename", drop_aggregates(df_wide))

\* line 34-35
Rename == LoadStep("rename", "years", rename(df_wide))

\* lines 52-53
ComputeYears ==
    /\ pc = "years"
    /\ years' = years_of(df_wide)
    /\ default_year' = Max(Range(years_of(df_wide)))
    /\ pc' = "slider"
    /\ UNCHANGED << csv, shp, df_wide, world, merged, year, selected_dest,
                    flows, labels, top_sources, sankey_source, sankey_target,
                    sankey_value, cache, bodyRuns, firstSeen, runNo >>

\* line 68
Slider ==
    /\ pc = "slider"
    /\ year' \in SliderValues(years, default_year)
    /\ pc' = "read_year"
    /\ UNCHANGED << csv, shp, df_wide, world, merged, years, default_year,
                    selected_dest, flows, labels, top_sources, sankey_source,
                    sankey_target, sankey_value, cache, bodyRuns, firstSeen,
                    runNo >>

\* lines 82, 104, 139: the derivations index the table by the slider's value;
\* a label that is no column raises KeyError.
ReadYearColumn ==
    /\ pc = "read_year"
    /\ pc' = IF year \in Range(df_wide.columns) THEN "done" ELSE "KeyError"
    /\ UNCHANGED << csv, shp, df_wide, world, merged, years, default_year,
                    year, selected_dest, flows, labels, top_sources,
                    sankey_source, sankey_target, sankey_value, cache,
                    bodyRuns, firstSeen, runNo >>

NextLoad ==
    \/ ReadPivot
    \/ DropNa
    \/ Interpolate
    \/ Bfill
    \/ Ffill
    \/ DropAggregates
    \/ Rename
    \/ ComputeYears
    \/ Slider
    \/ ReadYearColumn

SpecLoad == InitLoad /\ [][NextLoad]_vars

(***************************************************************************)
(* load_geometries, the merge, the selectors and the tabs, lines 37-154.   *)
(***************************************************************************)

\* lines 40-42: read the file, rename the column ADMIN to Entity.
load_geometries(file) ==
    [ i \in DOMAIN file |->
        [ Entity |-> file[i].ADMIN, geometry |-> file[i].geometry ] ]

\* A geometry is a box; its planar centroid is its middle.
centroid_x(g) == (g.minx + g.maxx) \div 2

centroid_y(g) == (g.miny + g.maxy) \div 2

\* The rows of table t with the key of left row w, in t's order.
RECURSIVE matches(_, _, _)
matches(w, t, i) ==
    IF i > Len(t.rows) THEN << >>
    ELSE (IF t.rows[i].Entity = w.Entity
          THEN << [ Entity |-> w.Entity,
                    geometry |-> w.geometry,
                    vals |-> t.rows[i].vals ] >>
          ELSE << >>) \o matches(w, t, i + 1)

RECURSIVE merge_rows(_, _, _)
merge_rows(w, t, i) ==
    IF i > Len(w) THEN << >>
    ELSE matches(w[i], t, 1) \o merge_rows(w, t, i + 1)

\* lines 48-50: inner join on Entity in the order of the left table, with a
\* fresh index 0, 1, ...; then the two centroid columns.
merge(w, t) ==
    Only({ [ columns |-> t.columns,
             rows |-> [ i \in DOMAIN joined |->
                          [ idx |-> i - 1,
                            Entity |-> joined[i].Entity,
                            geometry |-> joined[i].geometry,
                            centroid_lon |-> centroid_x(joined[i].geometry),
                            centroid_lat |-> centroid_y(joined[i].geometry),
                            vals |-> joined[i].vals ] ] ] :
           joined \in { merge_rows(w, t, 1) } })

\* The position of the column labelled y.
column_of(m, y) == CHOOSE j \in DOMAIN m.columns : m.columns[j] = y

\* line 69: sorted(merged['Entity'].unique())
country_options(m) == SortedNames({ m.rows[i].Entity : i \in DOMAIN m.rows })

\* A source filter that lets every row through.
is_source_any(row, dest) == TRUE

\* lines 98, 139: src_row['Entity'] != selected_dest
is_source(row, dest) == row.Entity # dest

\* line 95: the first row named dest.
dest_row(m, dest) ==
    m.rows[CHOOSE i \in DOMAIN m.rows :
             /\ m.rows[i].Entity = dest
             /\ \A j \in 1..(i - 1) : m.rows[j].Entity # dest]

\* lines 96-105: one flow per row that is not the destination.
flows_of(m, dest, y) ==
    Only({ [ i \in DOMAIN src |->
               [ from_lon |-> src[i].centroid_lon,
                 from_lat |-> src[i].centroid_lat,
                 to_lon |-> to.centroid_lon,
                 to_lat |-> to.centroid_lat,
                 migrants |-> src[i].vals[col] ] ] :
           src \in { SelectSeq(m.rows, LAMBDA r : is_source(r, dest)) },
           to \in { dest_row(m, dest) },
           col \in { column_of(m, y) } })

\* lines 139-140: the rows other than the destination, each with its index
\* label, its Entity and its value in the year column.
sources_of(m, dest, y) ==
    Only({ [ i \in DOMAIN src |->
               [ idx |-> src[i].idx,
                 Entity |-> src[i].Entity,
                 value |-> src[i].vals[col] ] ] :
           src \in { SelectSeq(m.rows, LAMBDA r : is_source(r, dest)) },
           col \in { column_of(m, y) } })

Without(s, i) == [ j \in 1..(Len(s) - 1) |-> IF j < i THEN s[j] ELSE s[j + 1] ]

\* The position of the largest value; of equal ones, the last.
largest_keep_last(s) ==
    Only({ CHOOSE i \in DOMAIN s :
             /\ s[i].value = v
             /\ \A j \in (i + 1)..Len(s) : s[j].value # v :
           v \in { Max({ s[i].value : i \in DOMAIN s }) } })

\* The position of the largest value; of equal ones, the first (keep='first').
largest(s) ==
    Only({ CHOOSE i \in DOMAIN s :
             /\ s[i].value = v
             /\ \A j \in 1..(i - 1) : s[j].value # v :
           v \in { Max({ s[i].value : i \in DOMAIN s }) } })

\* line 141: nlargest(n, year): the n rows with the largest values, largest
\* first, equal values in their original order; all rows if there are fewer.
RECURSIVE nlargest(_, _)
nlargest(n, s) ==
    IF n = 0 \/ s = << >> THEN << >>
    ELSE Only({ << s[i] >> \o Only({ nlargest(n - 1, rest) :
                                      rest \in { Without(s, i) } }) :
                i \in { largest(s) } })

\* line 143: labels = list(top_sources['Entity']) + [selected_dest]
labels_of(top, dest) == [ i \in DOMAIN top |-> top[i].Entity ] \o << dest >>

\* labels.index(e): the 0-based position of the first label equal to e.
index_of(lbls, e) ==
    (CHOOSE i \in DOMAIN lbls :
       lbls[i] = e /\ \A j \in 1..(i - 1) : lbls[j] # e) - 1

\* line 145: target_index = N
target_index == N

\* A cache that never holds a value.
cache_miss_always(entry) == TRUE

\* lines 9, 37: st.cache_data runs the body only if it holds no value for
\* the (argument-less) call.
cache_miss(entry) == entry = << >>

(***************************************************************************)
(* One execution of the script, lines 44-172.  Streamlit runs the script    *)
(* once when the page opens and again, from its first line and in the same  *)
(* process, each time the user changes a widget.                            *)
(*                                                                         *)
(* first: the widgets return their initial values (value=default_year,      *)
(* index=0); otherwise they return wy and wd, what the user has set.        *)
(* The choropleth (line 82) reads the column labelled year: KeyError if     *)
(* there is none.  The globe tab takes iloc[0] of the rows named            *)
(* selected_dest (line 95): IndexError if there is none.                    *)
(***************************************************************************)
RunScript(first, wy, wd) ==
    \E table \in { IF cache_miss(cache.mig)
                   THEN load_migration_data(csv) ELSE cache.mig[1] } :
    \E geoms \in { IF cache_miss(cache.geo)
                   THEN load_geometries(shp) ELSE cache.geo[1] } :
    \E m \in { merge(geoms, table) } :
    \E ys \in { years_of(table) } :
    \E opts \in { country_options(m) } :
    \E y \in { IF first THEN Max(Range(ys)) ELSE wy } :
    \E d \in { IF opts = << >> THEN None ELSE IF first THEN opts[1] ELSE wd } :
        /\ runNo' = runNo + 1
        /\ df_wide' = table
        /\ world' = geoms
        /\ cache' = [ mig |-> << table >>, geo |-> << geoms >> ]
        /\ bodyRuns' = [ mig |-> bodyRuns.mig + (IF cache_miss(cache.mig) THEN 1 ELSE 0),
                         geo |-> bodyRuns.geo + (IF cache_miss(cache.geo) THEN 1 ELSE 0) ]
        /\ firstSeen' = IF first THEN << [ df_wide |-> table, world |-> geoms ] >>
                        ELSE firstSeen
        /\ merged' = m
        /\ years' = ys
        /\ default_year' = Max(Range(ys))
        /\ year' = y
        /\ selected_dest' = d
        /\ IF y \notin Range(m.columns)
           THEN /\ pc' = "KeyError"
                /\ UNCHANGED << flows, top_sources, labels, sankey_source,
                                sankey_target, sankey_value >>
           ELSE IF \A i \in DOMAIN m.rows : m.rows[i].Entity # d
           THEN /\ pc' = "IndexError"
                /\ UNCHANGED << flows, top_sources, labels, sankey_source,
                                sankey_target, sankey_value >>
           ELSE \E top \in { nlargest(N, sources_of(m, d, y)) } :
                \E lbls \in { labels_of(top, d) } :
                  /\ flows' = flows_of(m, d, y)
                  /\ top_sources' = top
                  /\ labels' = lbls
                  /\ sankey_source' =
                       [ i \in DOMAIN top |-> index_of(lbls, top[i].Entity) ]
                  /\ sankey_target' = [ i \in DOMAIN top |-> target_index ]
                  /\ sankey_value' = [ i \in DOMAIN top |-> top[i].value ]
                  /\ pc' = "idle"
        /\ UNCHANGED << csv, shp >>

\* The page opens.
FirstRun ==
    /\ pc = "start"
    /\ RunScript(TRUE, 0, None)

\* The user moves the year slider (line 68) to another position.
SliderChange ==
    /\ pc # "start"
    /\ runNo <= MaxReruns
    /\ \E y \in SliderValues(years, default_year) \ { year } :
         RunScript(FALSE, y, selected_dest)

\* The user picks another destination in the selectbox (line 70).
DestChange ==
    /\ pc # "start"
    /\ runNo <= MaxReruns
    /\ \E d \in Range(country_options(merged)) \ { selected_dest } :
         RunScript(FALSE, year, d)

(***************************************************************************)
(* SpecTabs: the first run and one change of either widget, for up to       *)
(* MaxCountries countries present in both inputs.                           *)
(***************************************************************************)
TabYears == { 1990 + 5 * i : i \in 0..(thresh - 1) }

\* The box of the i-th shapefile row.
Box(i) == [ minx |-> 10 * i, maxx |-> 10 * i + 4, miny |-> -2 * i, maxy |-> 6 * i ]

\* k roster countries; country i has value b[i] in the first, third and fifth
\* year column and 30 - b[i] in the second and fourth.
TabFile(k, b) ==
    [ years |-> TabYears,
      cells |-> [ n \in { Roster[i] : i \in 1..k } |->
                    [ y \in TabYears |->
                        LET i == CHOOSE i \in 1..k : Roster[i] = n
                        IN  IF GridIndex(y) % 2 = 1 THEN b[i] * Den
                            ELSE (30 - b[i]) * Den ] ] ]

\* The same k countries in the shapefile, in reverse alphabetical order.
TabShapes(k) ==
    [ i \in 1..k |-> [ ADMIN |-> Roster[k + 1 - i], geometry |-> Box(i) ] ]

\* Sudan, South Sudan and Chad in the file; Sudan and Chad in the shapefile.
SudanFile ==
    [ years |-> GridYears,
      cells |-> [ n \in { "Chad", "South Sudan", "Sudan" } |-> BoundaryRow ] ]

SudanShapes ==
    << [ ADMIN |-> "Sudan", geometry |-> Box(1) ],
       [ ADMIN |-> "Chad", geometry |-> Box(2) ] >>

\* One country in the file and none of that name in the shapefile.
StrangerShapes == << [ ADMIN |-> "Chad", geometry |-> Box(1) ] >>

\* A file whose year columns leave a gap in the five-year grid.
GapFile ==
    [ years |-> { 1990, 2000 },
      cells |-> [ n \in { "Peru" } |-> [ y \in { 1990, 2000 } |-> 10 * Den ] ] ]

GapShapes == << [ ADMIN |-> "Peru", geometry |-> Box(1) ] >>

\* The value patterns of k countries: at most MaxHigh of them hold the high
\* value in the first year column (and so all but those in the second).
TabPatterns(k) ==
    { b \in [ 1..k -> { 10, 20 } ] :
        Cardinality({ i \in 1..k : b[i] = 20 }) <= MaxHigh }

TabInputs ==
    UNION { { << TabFile(k, b), TabShapes(k) >> : b \in TabPatterns(k) } :
            k \in 1..MaxCountries }
      \cup { << SudanFile, SudanShapes >>,
             << TabFile(1, [ i \in 1..1 |-> 10 ]), StrangerShapes >>,
             << GapFile, GapShapes >> }

InitTabs ==
    /\ \E in \in TabInputs : csv = in[1] /\ shp = in[2]
    /\ pc = "start"
    /\ Blank

NextTabs ==
    \/ FirstRun
    \/ runNo = 1 /\ SliderChange
    \/ runNo = 1 /\ DestChange

SpecTabs == InitTabs /\ [][NextTabs]_vars

(***************************************************************************)
(* SpecApp: one process over its lifetime: the first run, up to MaxReruns   *)
(* reruns by either widget, and the two files being replaced on disk at any *)
(* moment in between.                                                       *)
(***************************************************************************)
AppInputs ==
    UNION { { << TabFile(k, b), TabShapes(k) >> : b \in TabPatterns(k) } :
            k \in 1..MaxRows }
      \cup { << SudanFile, SudanShapes >> }

\* The environment replaces the two input files.  Nothing in the script
\* runs, and nothing of the process changes.
FilesEdited ==
    /\ pc # "start"
    /\ \E in \in AppInputs :
         /\ in # << csv, shp >>
         /\ csv' = in[1]
         /\ shp' = in[2]
    /\ UNCHANGED << pc, df_wide, world, merged, years, default_year, year,
                    selected_dest, flows, labels, top_sources, sankey_source,
                    sankey_target, sankey_value, cache, bodyRuns, firstSeen,
                    runNo >>

InitApp ==
    /\ \E in \in AppInputs : csv = in[1] /\ shp = in[2]
    /\ pc = "start"
    /\ Blank

NextApp == FirstRun \/ SliderChange \/ DestChange \/ FilesEdited

SpecApp == InitApp /\ [][NextApp]_vars

(***************************************************************************)
(* Properties of the loader and of the year selection (SpecLoad).          *)
(***************************************************************************)
NamesOf(t) == { t.rows[i].Entity : i \in DOMAIN t.rows }

\* Non-missing year values of a name in the file, counted before any filling.
RawCount(n) == Cardinality({ y \in csv.years : csv.cells[n][y] # NaN })

\* The file's value of a name at the j-th year column.
Raw(n, j) == csv.cells[n][df_wide.columns[j]]

Returned == pc \in { "years", "slider", "read_year", "done", "KeyError" }

\* C3: after the full load no two rows of the returned table carry the same
\* country name.
C3_UniqueRowNames ==
    Returned =>
        \A i, j \in DOMAIN df_wide.rows :
            i # j => df_wide.rows[i].Entity # df_wide.rows[j].Entity

\* C4: after the fill step every retained row has a value in every year
\* column; a known value is unchanged; a missing value between two known
\* neighbours lies on the straight line through them (by column position);
\* a missing leading value equals the first known value and a missing
\* trailing value the last known one.
C4_FillStep ==
    pc \in { "isin", "rename" } =>
        \A i \in DOMAIN df_wide.rows :
            LET n == df_wide.rows[i].Entity
                v == df_wide.rows[i].vals
                known == { j \in DOMAIN v : Raw(n, j) # NaN }
            IN  \A j \in DOMAIN v :
                    /\ v[j] # NaN
                    /\ j \in known => v[j] = Raw(n, j)
                    /\ j \notin known =>
                         LET before == { p \in known : p < j }
                             after == { q \in known : q > j }
                         IN  /\ (before # {} /\ after # {}) =>
                                   LET p == Max(before)
                                       q == Min(after)
                                   IN  (v[j] - Raw(n, p)) * (q - p)
                                         = (Raw(n, q) - Raw(n, p)) * (j - p)
                             /\ before = {} => v[j] = Raw(n, Min(known))
                             /\ after = {} => v[j] = Raw(n, Max(known))

\* C4's case: the row [missing, 10, missing, 30, missing, ...] has been
\* filled to [10, 10, 20, 30, 30, ...].
C4_Witness ==
    /\ pc = "isin"
    /\ \E i \in DOMAIN df_wide.rows :
         LET n == df_wide.rows[i].Entity
             v == df_wide.rows[i].vals
         IN  /\ Raw(n, 1) = NaN /\ Raw(n, 2) = 10 * Den /\ Raw(n, 3) = NaN
             /\ Raw(n, 4) = 30 * Den /\ Raw(n, 5) = NaN
             /\ v[1] = 10 * Den /\ v[2] = 10 * Den /\ v[3] = 20 * Den
             /\ v[4] = 30 * Den /\ v[5] = 30 * Den

\* The names the threshold keeps: at least 5 values known in the file.
AtLeastFive == { n \in DOMAIN csv.cells : RawCount(n) >= 5 }

\* C5: the threshold step drops a name exactly when its pivoted row has
\* fewer than 5 non-missing values, counted before any filling; the rows of
\* every later table, the returned one included, are exactly the rows that
\* passed the threshold (less the aggregates, under their normalized names),
\* so a dropped row is never filled and never comes back.
C5_Threshold ==
    /\ pc \in { "interpolate", "bfill", "ffill", "isin" } =>
         /\ NamesOf(df_wide) = AtLeastFive
         /\ Len(df_wide.rows) = Cardinality(AtLeastFive)
    /\ (pc = "rename" \/ Returned) =>
         LET kept == SortedNames(AtLeastFive \ aggregates)
         IN  /\ Len(df_wide.rows) = Len(kept)
             /\ \A i \in DOMAIN kept :
                  /\ df_wide.rows[i].Entity =
                       IF pc = "rename" THEN kept[i]
                       ELSE IF kept[i] \in DOMAIN fix_names
                            THEN fix_names[kept[i]] ELSE kept[i]
                  /\ \A j \in DOMAIN df_wide.rows[i].vals :
                       df_wide.rows[i].vals[j] # NaN

\* C5's case: a name with exactly 4 known values was dropped and a name
\* with exactly 5 was retained.
C5_Witness ==
    /\ pc = "done"
    /\ Len(df_wide.rows) = 1
    /\ \E a, b \in DOMAIN csv.cells :
         /\ RawCount(a) = 4
         /\ RawCount(b) = 5
         /\ a \notin NamesOf(df_wide)
         /\ b \in NamesOf(df_wide)

\* C6: the returned table (after the aggregate filter and the name
\* normalization) has no row named by the 15-element aggregate set.
C6_NoAggregateRow ==
    /\ Cardinality(aggregates) = 15
    /\ (pc = "rename" \/ Returned) => NamesOf(df_wide) \cap aggregates = {}

\* C6's case: the file held an aggregate with enough values to pass the
\* threshold and a name the normalization maps, and the load has returned.
C6_Witness ==
    /\ pc = "done"
    /\ \E a, b \in DOMAIN csv.cells :
         /\ a \in aggregates /\ RawCount(a) >= 5
         /\ b \in DOMAIN fix_names /\ fix_names[b] \in NamesOf(df_wide)

\* C7: normalizing twice is normalizing once: no target of the ten-pair map
\* is a key of it, a second rename leaves the returned table as it is, and a
\* name without an entry is unchanged.
C7_RenameIdempotent ==
    /\ Cardinality(DOMAIN fix_names) = 10
    /\ \A k \in DOMAIN fix_names : fix_names[k] \notin DOMAIN fix_names
    /\ \A n \in NameUniverse :
         /\ rename_label(rename_label(n)) = rename_label(n)
         /\ n \notin DOMAIN fix_names => rename_label(n) = n
    /\ Returned => rename(df_wide) = df_wide

\* C7's case: a mapped name and an unmapped one went through the rename.
C7_Witness ==
    /\ pc = "done"
    /\ \E a, b \in DOMAIN csv.cells :
         /\ a \in DOMAIN fix_names /\ RawCount(a) >= 5
         /\ fix_names[a] \in NamesOf(df_wide)
         /\ b \notin DOMAIN fix_names /\ b \in NamesOf(df_wide)

\* C10: every value the year slider takes is a year column of the table, so
\* no derivation reads a column that does not exist.
C10_YearIsColumn ==
    /\ pc \in { "read_year", "done", "KeyError" } =>
         year \in Range(df_wide.columns)
    /\ pc # "KeyError"

(***************************************************************************)
(* Properties of the tabs (SpecTabs).                                      *)
(***************************************************************************)
\* The positions of the merged rows whose name differs from the destination.
Eligible ==
    { i \in DOMAIN merged.rows : merged.rows[i].Entity # selected_dest }

\* The value of the i-th merged row in the selected year.
ValueAt(i) ==
    merged.rows[i].vals[CHOOSE j \in DOMAIN merged.columns :
                          merged.columns[j] = year]

\* C1: the label list ends with the destination and every edge's target
\* index is the destination's position in the label list, the last one,
\* which is the number of selected sources; this for any number of eligible
\* sources, fewer than 10 included.
C1_TargetIsDestination ==
    pc = "idle" =>
        /\ labels # << >>
        /\ labels[Len(labels)] = selected_dest
        /\ \A e \in DOMAIN sankey_target :
             /\ sankey_target[e] = Len(labels) - 1
             /\ sankey_target[e] = Len(top_sources)

\* C1's case: a Sankey diagram with between one and nine edges was derived.
C1_Witness ==
    /\ pc = "idle"
    /\ Len(sankey_target) \in 1..9
    /\ Cardinality(Eligible) = Len(sankey_target)

\* Row i comes before row j in the order of the selection: larger value
\* first, equal values in the order of the merged rows.
Beats(i, j) ==
    \/ ValueAt(i) > ValueAt(j)
    \/ ValueAt(i) = ValueAt(j) /\ i < j

\* C2: the selected sources are the min(10, eligible count) rows other than
\* the destination with the largest values in the year, in descending order
\* of value, equal values in the order of the merged rows; there is one edge
\* per selected source, carrying that source's value, and nothing else.
C2_TopSources ==
    pc = "idle" =>
        LET n == IF Cardinality(Eligible) < 10 THEN Cardinality(Eligible) ELSE 10
        IN  /\ Len(top_sources) = n
            /\ Len(sankey_source) = n
            /\ Len(sankey_target) = n
            /\ Len(sankey_value) = n
            /\ Len(labels) = n + 1
            /\ \A i \in Eligible :
                 LET r == Cardinality({ j \in Eligible : Beats(j, i) })
                 IN  r < 10 =>
                       /\ top_sources[r + 1].idx = i - 1
                       /\ top_sources[r + 1].Entity = merged.rows[i].Entity
                       /\ labels[r + 1] = merged.rows[i].Entity
                       /\ sankey_value[r + 1] = ValueAt(i)
            /\ \A k \in 1..n :
                 labels[sankey_source[k] + 1] = top_sources[k].Entity

\* C2's case: more than 10 eligible rows, the destination changed by the
\* user, and equal values on both sides of the cut.
C2_Witness ==
    /\ pc = "idle"
    /\ runNo = 2
    /\ Cardinality(Eligible) > 10
    /\ Len(top_sources) = 10
    /\ \E i \in Eligible :
         /\ top_sources[10].value = ValueAt(i)
         /\ \A k \in 1..10 : top_sources[k].idx # i - 1

\* C8: there is exactly one flow per merged row whose name differs from the
\* destination, in the order of the rows: it starts at the middle of that
\* row's geometry, ends at the middle of the destination's, and carries the
\* row's value in the year; no flow is made from a row of the destination;
\* with the destination as the only country the list is empty and the
\* derivation completes.
C8_GlobeFlows ==
    /\ pc = "idle" =>
         /\ Len(flows) = Cardinality(Eligible)
         /\ \A i \in Eligible :
              LET k == Cardinality({ j \in Eligible : j <= i })
                  g == merged.rows[i].geometry
                  d == merged.rows[Min(DOMAIN merged.rows \ Eligible)].geometry
              IN  /\ flows[k].from_lon = (g.minx + g.maxx) \div 2
                  /\ flows[k].from_lat = (g.miny + g.maxy) \div 2
                  /\ flows[k].to_lon = (d.minx + d.maxx) \div 2
                  /\ flows[k].to_lat = (d.miny + d.maxy) \div 2
                  /\ flows[k].migrants = ValueAt(i)
    /\ (/\ pc # "start"
        /\ Len(merged.rows) = 1
        /\ year \in Range(merged.columns)) => (pc = "idle" /\ flows = << >>)

\* C8's case: flows were derived for a destination the user picked, from
\* rows on both sides of the destination's row.
C8_Witness ==
    /\ pc = "idle"
    /\ runNo = 2
    /\ Len(flows) >= 2
    /\ \E i, j \in Eligible : \E d \in DOMAIN merged.rows \ Eligible :
         i < d /\ d < j

(***************************************************************************)
(* Properties of the process (SpecApp).                                    *)
(***************************************************************************)
\* C9: over the first run and any reruns by the two widgets, the body of
\* load_migration_data and the body of load_geometries each execute at most
\* once, and every run observes the tables the first run observed.
C9_MemoizedLoads ==
    /\ bodyRuns.mig <= 1
    /\ bodyRuns.geo <= 1
    /\ runNo >= 1 =>
         /\ bodyRuns.mig = 1
         /\ bodyRuns.geo = 1
         /\ df_wide = firstSeen[1].df_wide
         /\ world = firstSeen[1].world

\* C9's case: the last rerun has finished, after the files were replaced by
\* ones the loaders would turn into different tables.
C9_Witness ==
    /\ runNo = MaxReruns + 1
    /\ load_migration_data(csv) # df_wide
    /\ load_geometries(shp) # world

====
